---- MODULE Spec2Model ----
(***************************************************************************)
(* Model of TranslatorApp (src/main.py): the two alias indexes built from  *)
(* the primary dictionaries, the two lazy per-country table caches, the    *)
(* polling timer (check_input) and translate.                              *)
(*                                                                         *)
(* Text is modelled as a sequence of one-character strings, so that the    *)
(* alias pattern of load_main_data is computed character by character.     *)
(* The two tracks are "One" (Chinese -> English, name_to_info,             *)
(* country_data_cache, output_edit_1) and "SK" (Chinese -> Korean,         *)
(* sk_name_to_info, sk_country_data_cache, output_edit_2); the model keys  *)
(* those three attributes by track.                                        *)
(***************************************************************************)
EXTENDS Integers, Sequences, FiniteSets, TLC

VARIABLES
    mainFile,            \* Database/CsOne_main.json, Database/CsSK_main.json
    files,               \* Database/Cs<country>.json, per country
    name_to_info,        \* self.name_to_info / self.sk_name_to_info
    country_data_cache,  \* self.country_data_cache / self.sk_country_data_cache
    input_line,          \* self.input_line.text()
    last_input,          \* self.last_input
    output_edit,         \* self.output_edit_1 / self.output_edit_2 text
    raised,              \* the last translate call ended in an exception
    calls,               \* translate calls made by the last timer tick
    reads,               \* successful table file reads, per track and country
    failed,              \* countries whose table read failed, per track
    fileChanges          \* changes made to the table files so far

vars == <<mainFile, files, name_to_info, country_data_cache, input_line,
          last_input, output_edit, raised, calls, reads, failed, fileChanges>>

----------------------------------------------------------------------------
(* Bounds and input sets *)

MaxFileChanges == 1

Tracks == {"One", "SK"}
Countries == {"A", "B"}
HIDs == {"h1", "h2"}

NameA == <<"a">>
NameB == <<"b">>
NameC == <<"c">>
EmptyText == <<>>

\* What the user can have in the input field.
Texts == {EmptyText, NameA, NameB, NameC}

\* Canonical names used as keys of the primary dictionaries.
KeyNames == {NameA, NameB}

\* exegesis strings: none, one alias, two aliases, a stray opening brace
\* before a token, an empty pair of braces.
Exegeses ==
    { <<>>,
      <<"{", "b", "}">>,
      <<"x", "{", "a", "}", "{", "c", "}">>,
      <<"{", "{", "b", "}">>,
      <<"{", "}", "c">> }

----------------------------------------------------------------------------
(* Result field texts *)

EmptyOutput == ""
NoResultText == "no translation result"          \* main.py:351, 368
DataNotFoundText == "translation data not found" \* main.py:349, 366
UnknownText == "Unknown"                         \* main.py:346, 363
LoadErrorText == "main data load error"          \* main.py:293, 320

----------------------------------------------------------------------------
(* Country tables: JSON objects HID -> entry; an entry is a JSON object    *)
(* that may or may not have a "name" field.                                *)

NamedEntry(n) == [k \in {"name"} |-> n]
NoNameEntry == [k \in {"rarity"} |-> "5"]
EmptyEntry == [k \in {} |-> ""]

EmptyTable == [h \in {} |-> EmptyEntry]
TableX == [h \in {"h1"} |-> NamedEntry("Xname")]
TableY == [h \in HIDs |-> IF h = "h1" THEN NamedEntry("Yname") ELSE NoNameEntry]
Tables == {EmptyTable, TableX, TableY}

\* A table file is absent, present but not JSON, or a JSON object.
AbsentFile == [kind |-> "absent", data |-> EmptyTable]
UnparsableFile == [kind |-> "unparsable", data |-> EmptyTable]
TableFile(tb) == [kind |-> "table", data |-> tb]
FileStates == {AbsentFile, UnparsableFile} \cup {TableFile(tb) : tb \in Tables}

----------------------------------------------------------------------------
(* Primary dictionary files *)

\* An entry's value: well formed ("ok"), without Country/HID or not an
\* object at all ("nokeys"), or with an exegesis that is not a string
\* ("badexegesis").
OkInfos == [kind : {"ok"}, Country : Countries, HID : HIDs, exegesis : Exegeses]
BadExegesisInfos ==
    [kind : {"badexegesis"}, Country : Countries, HID : HIDs, exegesis : {<<>>}]
NoKeysInfo == [kind |-> "nokeys", Country |-> "A", HID |-> "h1", exegesis |-> <<>>]
Infos == OkInfos \cup BadExegesisInfos \cup {NoKeysInfo}

Entries(infos) == [name : KeyNames, info : infos]

\* Sequences of entries with pairwise distinct keys (a JSON object read by
\* json.load keeps its keys in file order).
DistinctSeqs(S) ==
    {<<>>} \cup {<<e>> : e \in S}
           \cup {s \in {<<e1, e2>> : e1 \in S, e2 \in S} : s[1].name # s[2].name}

MissingMain == [kind |-> "missing", items |-> <<>>]
MalformedMain == [kind |-> "malformed", items |-> <<>>]
NonObjectMain == [kind |-> "nonobject", items |-> <<>>]
ObjectMain(items) == [kind |-> "object", items |-> items]

AllMainFiles ==
    {MissingMain, MalformedMain, NonObjectMain}
        \cup {ObjectMain(s) : s \in DistinctSeqs(Entries(Infos))}

SmallInfos ==
    [kind : {"ok"}, Country : Countries, HID : HIDs, exegesis : {<<"{", "b", "}">>}]
SmallMainFiles ==
    {MissingMain, NonObjectMain}
        \cup {ObjectMain(<<[name |-> NameA, info |-> i]>>) : i \in SmallInfos}
        \cup {ObjectMain(<<[name |-> NameA,
                            info |-> [kind |-> "ok", Country |-> "A",
                                      HID |-> "h2", exegesis |-> <<>>]],
                           [name |-> NameB, info |-> NoKeysInfo]>>)}

----------------------------------------------------------------------------
(* Mapping helpers (Python dict assignment) *)

EmptyMap == [k \in {} |-> [Country |-> "A", HID |-> "h1"]]

Put(m, k, v) == [x \in DOMAIN m \cup {k} |-> IF x = k THEN v ELSE m[x]]

RECURSIVE PutAll(_, _, _)
PutAll(m, ks, v) ==
    IF ks = <<>> THEN m ELSE PutAll(Put(m, Head(ks), v), Tail(ks), v)

Min(S) == CHOOSE x \in S : \A y \in S : x <= y

----------------------------------------------------------------------------
(* re.findall('\{([^}]+)}', exegesis): scanning from position i, a match   *)
(* starts at a "{" that is followed by at least one character other than   *)
(* "}" and then a "}"; the group is everything between them (it may hold   *)
(* "{"), and scanning resumes after the closing brace.                     *)

RECURSIVE FindAllFrom(_, _)
FindAllFrom(s, i) ==
    IF i > Len(s) THEN <<>>
    ELSE IF s[i] # "{" THEN FindAllFrom(s, i + 1)
    ELSE LET closes == {j \in (i + 1)..Len(s) : s[j] = "}"} IN
         IF closes = {} THEN FindAllFrom(s, i + 1)
         ELSE LET j == Min(closes) IN
              IF j = i + 1 THEN FindAllFrom(s, i + 1)
              ELSE <<SubSeq(s, i + 1, j - 1)>> \o FindAllFrom(s, j + 1)

FindAll(s) == FindAllFrom(s, 1)

Range(q) == {q[i] : i \in DOMAIN q}

----------------------------------------------------------------------------
(* load_main_data / load_sk_main_data *)

\* A loader that inserts the canonical names and drops the aliases.
RECURSIVE InsertItems_NoAliases(_, _, _)
InsertItems_NoAliases(items, i, map) ==
    IF i > Len(items) THEN [map |-> map, ok |-> TRUE]
    ELSE LET e == items[i] IN
         IF e.info.kind = "nokeys"
         THEN [map |-> map, ok |-> FALSE]
         ELSE LET rec == [Country |-> e.info.Country, HID |-> e.info.HID]
                  m1 == Put(map, e.name, rec)
              IN IF e.info.kind = "badexegesis"
                 THEN [map |-> m1, ok |-> FALSE]
                 ELSE InsertItems_NoAliases(items, i + 1, m1)

\* The for loop over main_data.items(), from item i on, with the mapping
\* built so far. ok is FALSE when an exception left the loop.
RECURSIVE InsertItems(_, _, _)
InsertItems(items, i, map) ==
    IF i > Len(items) THEN [map |-> map, ok |-> TRUE]
    ELSE LET e == items[i] IN
         IF e.info.kind = "nokeys"
         THEN [map |-> map, ok |-> FALSE]            \* info['Country'] raises
         ELSE LET rec == [Country |-> e.info.Country, HID |-> e.info.HID]
                  m1 == Put(map, e.name, rec)
              IN IF e.info.kind = "badexegesis"
                 THEN [map |-> m1, ok |-> FALSE]     \* re.findall raises
                 ELSE InsertItems(items, i + 1,
                                  PutAll(m1, FindAll(e.info.exegesis), rec))

\* The index attribute after the loader ran on file f, and whether the
\* except branch was taken. set is FALSE when the attribute was never
\* assigned: open or json.load raised before `self.name_to_info = {}`.
LoadMainData(f) ==
    IF f.kind \in {"missing", "malformed"}
    THEN [set |-> FALSE, map |-> EmptyMap, ok |-> FALSE]
    ELSE IF f.kind = "nonobject"
    THEN [set |-> TRUE, map |-> EmptyMap, ok |-> FALSE]   \* .items() raises
    ELSE LET r == InsertItems(f.items, 1, EmptyMap)
         IN [set |-> TRUE, map |-> r.map, ok |-> r.ok]

----------------------------------------------------------------------------
(* get_country_data / get_sk_country_data on one track's cache *)

NoData == [some |-> FALSE, data |-> EmptyTable]
SomeData(tb) == [some |-> TRUE, data |-> tb]

\* A lookup that reads the file whether or not the country is cached.
GetCountryData_NoCacheCheck(cache, country) ==
    IF files[country].kind = "table"
    THEN [ret |-> SomeData(files[country].data),
          cache |-> Put(cache, country, files[country].data),
          read |-> TRUE, miss |-> FALSE]
    ELSE [ret |-> IF country \in DOMAIN cache THEN SomeData(cache[country]) ELSE NoData,
          cache |-> cache, read |-> FALSE, miss |-> TRUE]

\* A lookup that caches a failed read as an empty table.
GetCountryData_NegativeCache(cache, country) ==
    IF country \in DOMAIN cache
    THEN [ret |-> SomeData(cache[country]), cache |-> cache,
          read |-> FALSE, miss |-> FALSE]
    ELSE IF files[country].kind = "table"
    THEN [ret |-> SomeData(files[country].data),
          cache |-> Put(cache, country, files[country].data),
          read |-> TRUE, miss |-> FALSE]
    ELSE [ret |-> NoData, cache |-> Put(cache, country, EmptyTable),
          read |-> FALSE, miss |-> TRUE]

\* A lookup that caches the table it read but falls through to `return None`.
GetCountryData_NoReturn(cache, country) ==
    IF country \in DOMAIN cache
    THEN [ret |-> SomeData(cache[country]), cache |-> cache,
          read |-> FALSE, miss |-> FALSE]
    ELSE IF files[country].kind = "table"
    THEN [ret |-> NoData,
          cache |-> Put(cache, country, files[country].data),
          read |-> TRUE, miss |-> FALSE]
    ELSE [ret |-> NoData, cache |-> cache, read |-> FALSE, miss |-> TRUE]

\* ret: the returned value (None or a table); cache: the cache afterwards;
\* read: the file was opened and parsed; miss: the read was attempted and
\* gave nothing.
GetCountryData(cache, country) ==
    IF country \in DOMAIN cache
    THEN [ret |-> SomeData(cache[country]), cache |-> cache,
          read |-> FALSE, miss |-> FALSE]
    ELSE IF files[country].kind = "table"
    THEN [ret |-> SomeData(files[country].data),
          cache |-> Put(cache, country, files[country].data),
          read |-> TRUE, miss |-> FALSE]
    ELSE [ret |-> NoData, cache |-> cache, read |-> FALSE, miss |-> TRUE]

\* `if country_data:` -- None and an empty dict are both false.
Truthy(ret) == ret.some /\ DOMAIN ret.data # {}

----------------------------------------------------------------------------
(* translate *)

NoLookup == [country |-> "A", read |-> FALSE, miss |-> FALSE]

\* One track's half of translate (lines 337-351 for One, 354-368 for SK).
TranslateTrack(t, text, cache) ==
    LET idx == name_to_info[t] IN
    IF ~idx.set
    THEN [raised |-> TRUE, out |-> output_edit[t], cache |-> cache,
          lookup |-> NoLookup]                     \* AttributeError
    ELSE IF text \notin DOMAIN idx.map
    THEN [raised |-> FALSE, out |-> NoResultText, cache |-> cache,
          lookup |-> NoLookup]
    ELSE LET info == idx.map[text]
             r == GetCountryData(cache, info.Country)
             entry == IF info.HID \in DOMAIN r.ret.data
                      THEN r.ret.data[info.HID] ELSE EmptyEntry
             name == IF "name" \in DOMAIN entry THEN entry["name"] ELSE UnknownText
         IN [raised |-> FALSE,
             out |-> IF Truthy(r.ret) THEN name ELSE DataNotFoundText,
             cache |-> r.cache,
             lookup |-> [country |-> info.Country, read |-> r.read, miss |-> r.miss]]

\* translate(text): the two result fields, the two caches and the ghost
\* bookkeeping after the call.
Translate(text) ==
    IF text = EmptyText
    THEN [output |-> [t \in Tracks |-> EmptyOutput], cache |-> country_data_cache,
          raised |-> FALSE, reads |-> reads, failed |-> failed]
    ELSE LET one == TranslateTrack("One", text, country_data_cache["One"])
             sk == IF one.raised
                   THEN [raised |-> TRUE, out |-> output_edit["SK"],
                         cache |-> country_data_cache["SK"], lookup |-> NoLookup]
                   ELSE TranslateTrack("SK", text, country_data_cache["SK"])
             res == [t \in Tracks |-> IF t = "One" THEN one ELSE sk]
         IN [output |-> [t \in Tracks |-> res[t].out],
             cache |-> [t \in Tracks |-> res[t].cache],
             raised |-> sk.raised,
             reads |-> [t \in Tracks |-> [c \in Countries |->
                          IF res[t].lookup.read /\ res[t].lookup.country = c
                          THEN reads[t][c] + 1 ELSE reads[t][c]]],
             failed |-> [t \in Tracks |->
                          IF res[t].lookup.miss
                          THEN failed[t] \cup {res[t].lookup.country}
                          ELSE failed[t]]]

----------------------------------------------------------------------------
(* State after TranslatorApp.__init__ *)

EmptyCache == [c \in {} |-> EmptyTable]

\* __init__: initUI, load_main_data, load_sk_main_data, last_input = '',
\* both caches empty. A failed load leaves its message in the result field.
Constructed(mf, fs) ==
    /\ mainFile = mf
    /\ files = fs
    /\ name_to_info = [t \in Tracks |->
           [set |-> LoadMainData(mf[t]).set, map |-> LoadMainData(mf[t]).map]]
    /\ output_edit = [t \in Tracks |->
           IF LoadMainData(mf[t]).ok THEN EmptyOutput ELSE LoadErrorText]
    /\ country_data_cache = [t \in Tracks |-> EmptyCache]
    /\ input_line = EmptyText
    /\ last_input = EmptyText
    /\ raised = FALSE
    /\ calls = 0
    /\ reads = [t \in Tracks |-> [c \in Countries |-> 0]]
    /\ failed = [t \in Tracks |-> {}]
    /\ fileChanges = 0

Init ==
    \E mf \in [Tracks -> SmallMainFiles], fs \in [Countries -> FileStates] :
        Constructed(mf, fs)

\* One track has any dictionary, the other a small one; the table files are
\* present for one country, or for both, or for none.
LoadFileSamples ==
    { [c \in Countries |-> TableFile(TableY)],
      [c \in Countries |-> IF c = "A" THEN TableFile(TableX) ELSE AbsentFile],
      [c \in Countries |-> IF c = "A" THEN UnparsableFile ELSE TableFile(EmptyTable)] }

InitLoad ==
    \E rich \in Tracks, big \in AllMainFiles,
       small \in {MissingMain, ObjectMain(<<>>)}, fs \in LoadFileSamples :
        Constructed([t \in Tracks |-> IF t = rich THEN big ELSE small], fs)

----------------------------------------------------------------------------
(* Actions *)

\* The user edits the input field.
SetInput ==
    /\ \E text \in Texts : text # input_line /\ input_line' = text
    /\ calls' = 0
    /\ UNCHANGED <<mainFile, files, name_to_info, country_data_cache, last_input,
                   output_edit, raised, reads, failed, fileChanges>>

\* A tick that translates whether or not the text changed.
CheckInput_Always ==
    /\ LET r == Translate(input_line) IN
            /\ last_input' = input_line
            /\ output_edit' = r.output
            /\ country_data_cache' = r.cache
            /\ raised' = r.raised
            /\ reads' = r.reads
            /\ failed' = r.failed
            /\ calls' = 1
    /\ UNCHANGED <<mainFile, files, name_to_info, input_line, fileChanges>>

\* The timer tick.
CheckInput ==
    /\ IF input_line # last_input
       THEN LET r == Translate(input_line) IN
            /\ last_input' = input_line
            /\ output_edit' = r.output
            /\ country_data_cache' = r.cache
            /\ raised' = r.raised
            /\ reads' = r.reads
            /\ failed' = r.failed
            /\ calls' = 1
       ELSE /\ calls' = 0
            /\ UNCHANGED <<last_input, output_edit, country_data_cache, raised,
                           reads, failed>>
    /\ UNCHANGED <<mainFile, files, name_to_info, input_line, fileChanges>>

\* The environment creates, removes or rewrites a country table file.
SetFile ==
    /\ fileChanges < MaxFileChanges
    /\ \E c \in Countries, f \in FileStates :
          /\ f # files[c]
          /\ files' = [files EXCEPT ![c] = f]
    /\ fileChanges' = fileChanges + 1
    /\ calls' = 0
    /\ UNCHANGED <<mainFile, name_to_info, country_data_cache, input_line,
                   last_input, output_edit, raised, reads, failed>>

Next == SetInput \/ CheckInput \/ SetFile

Spec == Init /\ [][Next]_vars

NextLoad == SetInput \/ CheckInput

SpecLoad == InitLoad /\ [][NextLoad]_vars

----------------------------------------------------------------------------
(* Vocabulary of the properties *)

\* The loader of track t took its except branch.
LoadFailed(t) == ~LoadMainData(mainFile[t]).ok

\* translate's latest call was translate(last_input) with non-empty text
\* (last_input starts empty and only check_input sets it, just before the
\* call).
TranslatedText == last_input # EmptyText

\* This step is a timer tick that calls translate on non-empty text.
TranslateStep == CheckInput /\ input_line # last_input /\ input_line # EmptyText

\* Track t's index exists and holds the text.
InIndex(t, text) == name_to_info[t].set /\ text \in DOMAIN name_to_info[t].map

\* translate gets as far as track t's lookup: the One half runs first.
Reaches(t) ==
    /\ name_to_info["One"].set
    /\ t = "SK" => name_to_info["SK"].set

Items(t) == IF mainFile[t].kind = "object" THEN mainFile[t].items ELSE <<>>

\* The keys entry e writes when the loader processes all of it.
Keys(e) ==
    IF e.info.kind = "nokeys" THEN {}
    ELSE {e.name} \cup (IF e.info.kind = "ok" THEN Range(FindAll(e.info.exegesis)) ELSE {})

\* The substrings X of s such that s contains {X}, X non-empty and without
\* braces.
BracketedTokens(s) ==
    { SubSeq(s, i + 1, j - 1) : <<i, j>> \in
        { p \in (DOMAIN s) \X (DOMAIN s) :
            /\ p[2] > p[1] + 1
            /\ s[p[1]] = "{" /\ s[p[2]] = "}"
            /\ \A k \in (p[1] + 1)..(p[2] - 1) : s[k] \notin {"{", "}"} } }

\* No other entry of track t's dictionary writes a key of entry i.
NoCollision(t, i) ==
    \A j \in DOMAIN Items(t) : j # i => Keys(Items(t)[j]) \cap Keys(Items(t)[i]) = {}

\* Country c's table file holds a name for HID h.
FileHoldsName(c, h) ==
    /\ files[c].kind = "table"
    /\ h \in DOMAIN files[c].data
    /\ "name" \in DOMAIN files[c].data[h]

TranslatedNames == {"Xname", "Yname"}

----------------------------------------------------------------------------
(* C1: if loading a primary dictionary fails, every later translate of     *)
(* non-empty text completes without raising and shows the "no translation  *)
(* result" text in that track's result field.                              *)
C1_FailedLoadGivesNoResult ==
    \A t \in Tracks :
        (LoadFailed(t) /\ TranslatedText) =>
            (~raised /\ output_edit[t] = NoResultText)

(* C2: if the table file of a country is absent, translate of a name or    *)
(* alias whose record maps to that country shows the "translation data not *)
(* found" text in that track's result field and no exception escapes.      *)
C2_AbsentTableGivesDataNotFound ==
    [][TranslateStep =>
        \A t \in Tracks :
            (/\ InIndex(t, input_line)
             /\ files[name_to_info[t].map[input_line].Country].kind = "absent")
            => (~raised' /\ output_edit'[t] = DataNotFoundText)]_vars

(* C5: whenever the input is in the alias index and its country's table    *)
(* file exists and parses but does not hold the record's HID, translate    *)
(* shows "Unknown"; also for a table with no entries. Stated here for the  *)
(* calls that complete.                                                    *)
C5_MissingHidGivesUnknown ==
    [][TranslateStep =>
        \A t \in Tracks :
            (/\ ~raised'
             /\ InIndex(t, input_line)
             /\ LET info == name_to_info[t].map[input_line] IN
                   /\ files[info.Country].kind = "table"
                   /\ info.HID \notin DOMAIN files[info.Country].data)
            => output_edit'[t] = UnknownText]_vars

C7_FailedLoadNotCached ==
    [][TranslateStep =>
        \A t \in Tracks :
            (/\ Reaches(t)
             /\ InIndex(t, input_line)
             /\ name_to_info[t].map[input_line].Country
                    \notin DOMAIN country_data_cache[t])
            => LET c == name_to_info[t].map[input_line].Country IN
               IF files[c].kind = "table"
               THEN /\ c \in DOMAIN country_data_cache'[t]
                    /\ country_data_cache'[t][c] = files[c].data
               ELSE /\ c \notin DOMAIN country_data_cache'[t]
                    /\ output_edit'[t] = DataNotFoundText]_vars

\* A country whose read failed earlier is now cached from the file that
\* became readable.
C7_Witness ==
    \E t \in Tracks, c \in Countries :
        /\ c \in failed[t]
        /\ c \in DOMAIN country_data_cache[t]
        /\ country_data_cache[t][c] = files[c].data
        /\ files[c].kind = "table"

(* C8: the tracks are independent: after translate, each track's result is *)
(* the one its own alias index, cache and table files give for the text,   *)
(* whatever the state or failure of the other track.                       *)
C8_TracksIndependent ==
    [][TranslateStep =>
        \A t \in Tracks :
            name_to_info[t].set =>
                output_edit'[t] =
                    TranslateTrack(t, input_line, country_data_cache[t]).out]_vars

(* C9: a timer tick runs translate if and only if the input text differs   *)
(* from last_input; an unchanged tick leaves last_input, both result       *)
(* fields and both caches as they are; a changed tick sets last_input to   *)
(* the text and runs translate once on it.                                 *)
C9_TickTranslatesOnChange ==
    [][CheckInput =>
        IF input_line = last_input
        THEN /\ calls' = 0
             /\ UNCHANGED <<last_input, output_edit, country_data_cache>>
        ELSE /\ calls' = 1
             /\ last_input' = input_line
             /\ output_edit' = Translate(input_line).output
             /\ country_data_cache' = Translate(input_line).cache]_vars

\* A tick has translated changed text, and both fields hold results.
C9_Witness ==
    /\ calls = 1
    /\ last_input = input_line
    /\ last_input # EmptyText
    /\ ~raised
    /\ \A t \in Tracks : output_edit[t] \notin {EmptyOutput, LoadErrorText}

(* C10: building an alias index publishes no partial state: after a failed *)
(* load the index holds no mapping, otherwise it holds the keys of every   *)
(* entry and alias.                                                        *)
C10_NoPartialIndex ==
    \A t \in Tracks :
        IF LoadFailed(t)
        THEN DOMAIN name_to_info[t].map = {}
        ELSE \A i \in DOMAIN Items(t) :
                Keys(Items(t)[i]) \subseteq DOMAIN name_to_info[t].map

----------------------------------------------------------------------------
(* Properties of the alias index, checked under SpecLoad *)

\* What translate(text) would leave in track t's result field now.
ResultOf(t, text) == Translate(text).output[t]

(* C3, as stated: for every entry whose exegesis contains {X}, translate   *)
(* of X gives the same result as translate of the canonical name. Stated   *)
(* for the text translate was last called on, for a dictionary that loaded *)
(* without error and an exegesis whose tokens are exactly what the pattern *)
(* extracts.                                                               *)
C3_AliasesResolveLikeName ==
    \A t \in Tracks : \A i \in DOMAIN Items(t) :
        LET e == Items(t)[i] IN
        (/\ e.info.kind = "ok"
         /\ ~LoadFailed(t)
         /\ BracketedTokens(e.info.exegesis) = Range(FindAll(e.info.exegesis))
         /\ TranslatedText
         /\ last_input \in BracketedTokens(e.info.exegesis))
        => output_edit[t] = ResultOf(t, e.name)

(* C3, amended: for every entry and every alias X that the pattern         *)
(* extracts from its exegesis, translate of X gives the same result as     *)
(* translate of the canonical name, provided no other entry of the         *)
(* dictionary has the canonical name or one of these aliases as its name   *)
(* or alias.                                                               *)
C3_AliasesResolveLikeName_Amended ==
    \A t \in Tracks : \A i \in DOMAIN Items(t) :
        LET e == Items(t)[i] IN
        (e.info.kind = "ok" /\ NoCollision(t, i)) =>
            \A X \in Range(FindAll(e.info.exegesis)) :
                ResultOf(t, X) = ResultOf(t, e.name)

\* translate has run on an alias of a collision-free entry and shows the
\* translated name, the one the canonical name gives too.
C3_Witness ==
    \E t \in Tracks : \E i \in DOMAIN Items(t) :
        LET e == Items(t)[i] IN
        /\ e.info.kind = "ok"
        /\ NoCollision(t, i)
        /\ Len(mainFile[t].items) = 2
        /\ last_input \in Range(FindAll(e.info.exegesis))
        /\ last_input # e.name
        /\ ~raised
        /\ output_edit[t] \in TranslatedNames
        /\ ResultOf(t, e.name) = output_edit[t]

\* Text is the canonical name of an ok entry i of track t without aliases,
\* and the table file of the entry's country holds a name for its HID.
NameWithoutAliases(t, i, text) ==
    LET e == Items(t)[i] IN
    /\ e.name = text
    /\ e.info.kind = "ok"
    /\ FindAll(e.info.exegesis) = <<>>
    /\ FileHoldsName(e.info.Country, e.info.HID)

\* The name the entry's own country table holds for the entry's own HID.
OwnName(t, i) ==
    LET e == Items(t)[i] IN files[e.info.Country].data[e.info.HID]["name"]

====
